---- MODULE Spec2Model ----
(***************************************************************************)
(* Model of src/app/products/[id]/page.js: the ProductDetails client       *)
(* component.  The state is the component's five useState cells, the       *)
(* identifier the router supplies, and the fetches it has issued.  One     *)
(* action per effect run, per promise continuation and per click handler.  *)
(*                                                                         *)
(* JavaScript runs each handler and each promise continuation to           *)
(* completion, and React renders between them, so every action is one      *)
(* whole handler.  A change of params, the render it causes and the        *)
(* passive effect of that render are one action: React flushes a render's  *)
(* passive effects before it processes any later state update or event,    *)
(* so no settlement or click is ever handled between them.                 *)
(***************************************************************************)
EXTENDS Integers, Sequences, FiniteSets

VARIABLES
    id,                 \* params.id, the identifier of the last render
    product,            \* useState(null)
    loading,            \* useState(true)
    error,              \* useState(null)
    currentImageIndex,  \* useState(0)
    reviewsVisible,     \* useState(false)
    mounted,            \* whether the mount effect has run
    inFlight,           \* the fetches issued and not yet settled
    issued,             \* how many fetches have been issued
    latest,             \* the promise of the fetch issued last
    toggleClicks,       \* how often the reviews button was clicked
    uncaught,           \* whether loadProductDetails let an exception escape
    lastEvent,          \* the handler that ran last, and the index it found
    rendered            \* what the last render returned

vars == <<id, product, loading, error, currentImageIndex, reviewsVisible,
          mounted, inFlight, issued, latest, toggleClicks, uncaught, lastEvent, rendered>>

(***************************************************************************)
(* Bounds of the model.                                                    *)
(***************************************************************************)
NumIds == 2
MaxImages == 2
MaxLoads == 3
MaxIndex == 2
MaxClicks == 2
MaxStock == 2

\* Ratings run from 0 to 5 ("out of 5"): 50 tenths.
MaxRatingTenths == 50

Ids == 1..NumIds

(***************************************************************************)
(* JavaScript values.                                                      *)
(***************************************************************************)
NULL == [null |-> TRUE]

\* The one message loadProductDetails stores on any failure.
ErrorMessage == [str |-> "Failed to load product details. Please try again later."]

\* A body response.json() cannot parse.
MALFORMED == [malformed |-> TRUE]

\* The product records the API can return for identifier i (spec section 3):
\* images is a sequence of URLs.
ImageUrls(n) == [k \in 1..n |-> k]

Products(i) == {[id |-> i, images |-> ImageUrls(n)] : n \in 0..MaxImages}

\* The JSON body of an error response: it parses, and is no product.
ErrorBody == [message |-> "Not Found"]

\* What fetch() can settle with: a transport failure, a 200 whose body is a
\* product record or does not parse, or an error status with an error body.
ErrorStatusCodes == {404, 500}

NetworkError == [kind |-> "network", status |-> 0, json |-> NULL]

Responses(i) ==
    {NetworkError}
    \cup {[kind |-> "http", status |-> 200, json |-> b] : b \in Products(i) \cup {MALFORMED}}
    \cup {[kind |-> "http", status |-> s, json |-> ErrorBody] : s \in ErrorStatusCodes}

\* Response.ok
ResponseOk(resp) == resp.status \in 200..299

(***************************************************************************)
(* fetchProductDetails: what the async function settles with, given what   *)
(* fetch settled with.                                                     *)
(***************************************************************************)
Throw == [threw |-> TRUE, value |-> NULL]
Return(v) == [threw |-> FALSE, value |-> v]

\* Mutant: the response's status is never looked at.
fetchProductDetails_NoOkCheck(resp) ==
    IF resp.kind = "network" THEN Throw
    ELSE IF resp.json = MALFORMED THEN Throw
    ELSE Return(resp.json)

fetchProductDetails(resp) ==
    IF resp.kind = "network" THEN Throw             \* await fetch(...) rejects
    ELSE IF ~ResponseOk(resp) THEN Throw            \* throw new Error(...)
    ELSE IF resp.json = MALFORMED THEN Throw        \* response.json() rejects
    ELSE Return(resp.json)

(***************************************************************************)
(* The render guards: which of the three views the component returns.      *)
(***************************************************************************)
View ==
    IF loading THEN "loading"
    ELSE IF error # NULL THEN "error"
    ELSE "product"

(***************************************************************************)
(* JavaScript values of the product's optional fields.  A number is kept   *)
(* in tenths, so that 4.6 is Num(46).                                      *)
(***************************************************************************)
UNDEFINED == [undefined |-> TRUE]

Num(tenths) == [num |-> tenths]

IsNum(v) == DOMAIN v = {"num"}

IsObject(v) == ~IsNum(v) /\ v \notin {UNDEFINED, NULL}

\* obj.key and obj?.key: undefined when the property does not exist.
Get(obj, key) == IF key \in DOMAIN obj THEN obj[key] ELSE UNDEFINED

Truthy(v) == IF IsNum(v) THEN v.num # 0 ELSE v \notin {UNDEFINED, NULL}

\* v || 0
OrZero(v) == IF Truthy(v) THEN v ELSE Num(0)

\* Math.round of a number that is not negative: the nearest integer, halves up.
MathRound(v) == (v.num + 5) \div 10

\* v > 0
GreaterThanZero(v) == IsNum(v) /\ v.num > 0

(***************************************************************************)
(* The derived widgets of the product view.                                *)
(***************************************************************************)
\* Array(Math.round(product.rating?.rate || 0)).fill('*').join(''): its length.
ProductStars(p) == MathRound(OrZero(Get(Get(p, "rating"), "rate")))

\* Array(Math.round(review.rating || 0)).fill('*').join(''): its length.
ReviewStars(review) == MathRound(OrZero(Get(review, "rating")))

\* Mutant: the comparison lets a stock of 0 through.
StockBadge_ZeroInStock(p) ==
    IF IsNum(Get(p, "stock")) /\ Get(p, "stock").num >= 0 THEN "In Stock" ELSE "Out of Stock"

StockBadge(p) == IF GreaterThanZero(Get(p, "stock")) THEN "In Stock" ELSE "Out of Stock"

\* product.reviews?.length > 0 ? product.reviews.map(...) : "No reviews yet."
ReviewList(p) ==
    IF "reviews" \in DOMAIN p
      THEN [k \in 1..Len(p.reviews) |-> ReviewStars(p.reviews[k])]
      ELSE <<>>

\* "Rated: {product.rating} out of 5": React throws when the child is an object.
RatingTextThrows(p) == IsObject(Get(p, "rating"))

NoWidgets(view) == [view |-> view, badge |-> "", stars |-> 0, reviews |-> <<>>]

\* What the component function returns for the state it is called with.
Render ==
    IF View = "loading" THEN NoWidgets("loading")
    ELSE IF View = "error" THEN NoWidgets("error")
    ELSE IF product = NULL THEN NoWidgets("crash")      \* TypeError: product is null
    ELSE IF RatingTextThrows(product) THEN NoWidgets("crash")
    ELSE [view |-> "product",
          badge |-> StockBadge(product),
          stars |-> ProductStars(product),
          reviews |-> IF reviewsVisible THEN ReviewList(product) ELSE <<>>]

\* The product view's buttons exist only once it has rendered.
ProductRendered == Render.view = "product"

(***************************************************************************)
(* The state after construction: the useState initial values, before the   *)
(* mount effect has run.                                                   *)
(***************************************************************************)
Event(kind, from) == [kind |-> kind, from |-> from]

NoRequest == [req |-> 0, id |-> 0, status |-> "none", value |-> NULL]

Init ==
    /\ id \in Ids
    /\ product = NULL
    /\ loading = TRUE
    /\ error = NULL
    /\ currentImageIndex = 0
    /\ reviewsVisible = FALSE
    /\ mounted = FALSE
    /\ inFlight = {}
    /\ issued = 0
    /\ latest = NoRequest
    /\ toggleClicks = 0
    /\ uncaught = FALSE
    /\ lastEvent = Event("init", 0)
    /\ rendered = Render

(***************************************************************************)
(* loadProductDetails up to its await: setLoading(true), setError(null),   *)
(* and the call of fetchProductDetails(i), which issues the fetch.         *)
(***************************************************************************)
\* Mutant: the load starts without setError(null).
loadProductDetails_KeepsError(i) ==
    /\ loading' = TRUE
    /\ issued' = issued + 1
    /\ inFlight' = inFlight \cup {[req |-> issued + 1, id |-> i]}
    /\ latest' = [req |-> issued + 1, id |-> i, status |-> "pending", value |-> NULL]
    /\ UNCHANGED <<error, product>>

loadProductDetails(i) ==
    /\ loading' = TRUE
    /\ error' = NULL
    /\ issued' = issued + 1
    /\ inFlight' = inFlight \cup {[req |-> issued + 1, id |-> i]}
    /\ latest' = [req |-> issued + 1, id |-> i, status |-> "pending", value |-> NULL]
    /\ UNCHANGED product

\* The dependency array [id]: the effect runs again when id differs from the
\* id of the previous render.
\* Mutant: an effect without its dependency array runs after every render.
DepsChanged_EveryRender(prevId, nextId) == TRUE

DepsChanged(prevId, nextId) == prevId # nextId

\* The mount: the first commit runs the effect.
Mount ==
    /\ ~mounted
    /\ issued < MaxLoads
    /\ mounted' = TRUE
    /\ loadProductDetails(id)
    /\ lastEvent' = Event("mount", 0)
    /\ UNCHANGED <<id, currentImageIndex, reviewsVisible, toggleClicks, uncaught>>
    /\ rendered' = Render'

\* The router re-renders the component with params.id = newId.
SetParams(newId) ==
    /\ mounted
    /\ issued < MaxLoads
    /\ id' = newId
    /\ IF DepsChanged(id, newId)
         THEN loadProductDetails(newId)
         ELSE UNCHANGED <<loading, error, inFlight, issued, latest, product>>
    /\ lastEvent' = Event(IF newId # id THEN "idChange" ELSE "rerender", 0)
    /\ UNCHANGED <<currentImageIndex, reviewsVisible, mounted, toggleClicks, uncaught>>
    /\ rendered' = Render'

(***************************************************************************)
(* loadProductDetails after its await: the continuation of request r when  *)
(* its fetch settles with resp.  try: setProduct; catch: setError;         *)
(* finally: setLoading(false).                                             *)
(***************************************************************************)
\* Mutant: the catch block does not store the message.
Continuation_ErrorNotStored(result) ==
    /\ IF result.threw
         THEN UNCHANGED <<error, product>>
         ELSE /\ product' = result.value
              /\ UNCHANGED error
    /\ loading' = FALSE
    /\ UNCHANGED uncaught

\* Mutant: setLoading(false) at the end of the try block instead of in finally.
Continuation_NoFinally(result) ==
    /\ IF result.threw
         THEN /\ error' = ErrorMessage
              /\ UNCHANGED <<product, loading>>
         ELSE /\ product' = result.value
              /\ loading' = FALSE
              /\ UNCHANGED error
    /\ UNCHANGED uncaught

Continuation(result) ==
    /\ IF result.threw
         THEN /\ error' = ErrorMessage
              /\ UNCHANGED product
         ELSE /\ product' = result.value
              /\ UNCHANGED error
    /\ loading' = FALSE
    /\ UNCHANGED uncaught          \* the catch block handles every throw

Settled(promise, result) ==
    [promise EXCEPT !.status = IF result.threw THEN "rejected" ELSE "fulfilled",
                    !.value = result.value]

\* Mutant: the carousel is reset whenever a load finishes.
Resume_ResetsCarousel(r, resp) ==
    /\ r \in inFlight
    /\ Continuation(fetchProductDetails(resp))
    /\ inFlight' = inFlight \ {r}
    /\ latest' = IF r.req = latest.req
                   THEN Settled(latest, fetchProductDetails(resp))
                   ELSE latest
    /\ lastEvent' = Event("settle", 0)
    /\ currentImageIndex' = 0
    /\ UNCHANGED <<id, reviewsVisible, mounted, issued, toggleClicks>>
    /\ rendered' = Render'

\* The continuation of request r resumed with what its fetch settled with.
Resume(r, resp) ==
    /\ r \in inFlight
    /\ Continuation(fetchProductDetails(resp))
    /\ inFlight' = inFlight \ {r}
    /\ latest' = IF r.req = latest.req
                   THEN Settled(latest, fetchProductDetails(resp))
                   ELSE latest
    /\ lastEvent' = Event("settle", 0)
    /\ UNCHANGED <<id, currentImageIndex, reviewsVisible, mounted, issued, toggleClicks>>
    /\ rendered' = Render'

Settle(r, resp) == resp \in Responses(r.id) /\ Resume(r, resp)

(***************************************************************************)
(* The carousel and the reviews button.                                    *)
(***************************************************************************)
\* Mutant: the increment without the wraparound test.
NextIndex_NoWrap(prevIndex, n) == prevIndex + 1

NextIndex(prevIndex, n) == IF prevIndex = n - 1 THEN 0 ELSE prevIndex + 1

PreviousIndex(prevIndex, n) == IF prevIndex = 0 THEN n - 1 ELSE prevIndex - 1

IndexInModel(i) == i \in (0 - MaxIndex)..MaxIndex

handleNextImage ==
    /\ ProductRendered
    /\ currentImageIndex' = NextIndex(currentImageIndex, Len(product.images))
    /\ IndexInModel(currentImageIndex')
    /\ lastEvent' = Event("next", currentImageIndex)
    /\ UNCHANGED <<id, product, loading, error, reviewsVisible, mounted, inFlight,
                   issued, latest, toggleClicks, uncaught>>
    /\ rendered' = Render'

handlePreviousImage ==
    /\ ProductRendered
    /\ currentImageIndex' = PreviousIndex(currentImageIndex, Len(product.images))
    /\ IndexInModel(currentImageIndex')
    /\ lastEvent' = Event("previous", currentImageIndex)
    /\ UNCHANGED <<id, product, loading, error, reviewsVisible, mounted, inFlight,
                   issued, latest, toggleClicks, uncaught>>
    /\ rendered' = Render'

\* The thumbnail strip: rendered when there is more than one image, one
\* thumbnail per position of product.images.
\* Mutant: one thumbnail too many, and a strip for a single image.
Thumbnails_OneTooMany == 0..Len(product.images)

Thumbnails == IF Len(product.images) > 1 THEN 0..(Len(product.images) - 1) ELSE {}

ThumbnailClick(index) ==
    /\ ProductRendered
    /\ index \in Thumbnails
    /\ currentImageIndex' = index
    /\ lastEvent' = Event("thumbnail", currentImageIndex)
    /\ UNCHANGED <<id, product, loading, error, reviewsVisible, mounted, inFlight,
                   issued, latest, toggleClicks, uncaught>>
    /\ rendered' = Render'

\* The reviews button: setReviewsVisible(!reviewsVisible).
\* Mutant: the button only ever shows the panel.
ToggledVisibility_AlwaysShow(visible) == TRUE

ToggledVisibility(visible) == ~visible

ToggleReviews ==
    /\ ProductRendered
    /\ toggleClicks < MaxClicks
    /\ reviewsVisible' = ToggledVisibility(reviewsVisible)
    /\ toggleClicks' = toggleClicks + 1
    /\ lastEvent' = Event("toggle", 0)
    /\ UNCHANGED <<id, product, loading, error, currentImageIndex, mounted, inFlight,
                   issued, latest, uncaught>>
    /\ rendered' = Render'

Next ==
    \/ Mount
    \/ \E newId \in Ids : SetParams(newId)
    \/ \E r \in inFlight : \E resp \in Responses(r.id) : Settle(r, resp)
    \/ handleNextImage
    \/ handlePreviousImage
    \/ \E index \in 0..MaxImages : ThumbnailClick(index)
    \/ ToggleReviews

Spec == Init /\ [][Next]_vars

(***************************************************************************)
(* The sequential runs: the identifier changes only while no fetch is in   *)
(* flight, and every product the API returns has at least one image.       *)
(***************************************************************************)
ResponsesWithImages(i) ==
    {resp \in Responses(i) : resp.json \in Products(i) => Len(resp.json.images) >= 1}

SetParamsSequential(newId) == inFlight = {} /\ SetParams(newId)

NextSequential ==
    \/ Mount
    \/ \E newId \in Ids : SetParamsSequential(newId)
    \/ \E r \in inFlight : \E resp \in ResponsesWithImages(r.id) : Settle(r, resp)
    \/ handleNextImage
    \/ handlePreviousImage
    \/ \E index \in 0..MaxImages : ThumbnailClick(index)
    \/ ToggleReviews

SpecSequential == Init /\ [][NextSequential]_vars

(***************************************************************************)
(* The runs without overlapping fetches, whatever the API returns.         *)
(***************************************************************************)
NextNoOverlap ==
    \/ Mount
    \/ \E newId \in Ids : SetParamsSequential(newId)
    \/ \E r \in inFlight : \E resp \in Responses(r.id) : Settle(r, resp)
    \/ handleNextImage
    \/ handlePreviousImage
    \/ \E index \in 0..MaxImages : ThumbnailClick(index)
    \/ ToggleReviews

SpecNoOverlap == Init /\ [][NextNoOverlap]_vars

(***************************************************************************)
(* The fair runs of the loads: the mount effect runs, and a fetch in       *)
(* flight settles.  The number of loads is bounded, so the identifier      *)
(* changes finitely often.  The clicks are left out: they are enabled only *)
(* by the view, and change nothing a load or a settlement reads or writes  *)
(* (C15 checks that under Spec).                                           *)
(***************************************************************************)
SettleSome == \E r \in inFlight : \E resp \in Responses(r.id) : Settle(r, resp)

NextLoads ==
    \/ Mount
    \/ \E newId \in Ids : SetParams(newId)
    \/ SettleSome

SpecFair == Init /\ [][NextLoads]_vars /\ WF_vars(Mount) /\ WF_vars(SettleSome)

(***************************************************************************)
(* The product view of one loaded product: the records the API can return  *)
(* with their stock and their optional rating and reviews (spec section    *)
(* 3), fetched once by the mount, rendered and clicked on.                 *)
(***************************************************************************)
With(p, key, v) == [k \in DOMAIN p \cup {key} |-> IF k = key THEN v ELSE p[k]]

\* A rating is a plain number or a structured rate.
Ratings ==
    {Num(t) : t \in 0..MaxRatingTenths} \cup {[rate |-> Num(t)] : t \in 0..MaxRatingTenths}

\* A review's rating is a number of whole or half stars, or is missing.
Reviews ==
    {[reviewerName |-> "a"]}
    \cup {[reviewerName |-> "a", rating |-> Num(t)] :
             t \in {u \in 0..MaxRatingTenths : u % 5 = 0}}

ReviewLists == {<<>>} \cup {<<review>> : review \in Reviews}

StockedProducts(i) ==
    {[id |-> i, images |-> ImageUrls(MaxImages), stock |-> Num(n)] : n \in 0..MaxStock}

RatedProducts(i) ==
    StockedProducts(i) \cup {With(p, "rating", r) : p \in StockedProducts(i), r \in Ratings}

RenderProducts(i) ==
    RatedProducts(i) \cup {With(p, "reviews", l) : p \in RatedProducts(i), l \in ReviewLists}

RenderResponses(i) ==
    {[kind |-> "http", status |-> 200, json |-> p] : p \in RenderProducts(i)}

InitRender == Init /\ id = 1

NextRender ==
    \/ Mount
    \/ \E r \in inFlight : \E resp \in RenderResponses(r.id) : Resume(r, resp)
    \/ handleNextImage
    \/ handlePreviousImage
    \/ \E index \in 0..MaxImages : ThumbnailClick(index)
    \/ ToggleReviews

SpecRender == InitRender /\ [][NextRender]_vars

(***************************************************************************)
(* Terms the claims are stated in.                                         *)
(***************************************************************************)
\* Every fetch issued has settled.
AllSettled == mounted /\ inFlight = {}

\* The number of images of the rendered product.
ImageCount == Len(product.images)

(***************************************************************************)
(* C1: once every in-flight fetch has settled, the view reflects only the  *)
(* outcome of the fetch for the latest identifier: its product if that     *)
(* fetch succeeded, the error view if it failed; no response for an older  *)
(* identifier overwrites it.                                               *)
(***************************************************************************)
C1_ViewReflectsLatestFetch ==
    AllSettled =>
        /\ latest.status = "fulfilled" => (View = "product" /\ product = latest.value)
        /\ latest.status = "rejected" => View = "error"

(***************************************************************************)
(* C2: whenever the product is rendered and has at least one image,        *)
(* currentImageIndex is within [0, images.length).                         *)
(***************************************************************************)
C2_IndexWithinImages ==
    (ProductRendered /\ ImageCount >= 1) => currentImageIndex \in 0..(ImageCount - 1)

(***************************************************************************)
(* C3: for a rendered product with n >= 1 images and an index i in [0, n), *)
(* "next" sets the index to (i + 1) mod n and "previous" sets it to        *)
(* (i - 1) mod n.                                                          *)
(***************************************************************************)
C3_NextPreviousWrap ==
    [][(ProductRendered /\ ImageCount >= 1 /\ currentImageIndex \in 0..(ImageCount - 1)) =>
          /\ handleNextImage =>
                currentImageIndex' = (currentImageIndex + 1) % ImageCount
          /\ handlePreviousImage =>
                currentImageIndex' = (currentImageIndex - 1) % ImageCount]_vars

\* "previous" has just wrapped from index 0 to the last of at least two images.
C3_Witness ==
    /\ ProductRendered
    /\ ImageCount >= 2
    /\ lastEvent = Event("previous", 0)
    /\ currentImageIndex = ImageCount - 1

(***************************************************************************)
(* C4: when the fetch for the current identifier settles with a non-2xx    *)
(* response (404 or any other alike) or a network error, the view becomes  *)
(* the error view with the one fixed message, nothing is committed to      *)
(* product and no exception escapes; and for as long as that fetch is the  *)
(* latest one, the error view stays, whatever product is held in state.    *)
(***************************************************************************)
FailedResponse(resp) == resp.kind = "network" \/ resp.status \notin 200..299

C5_SuccessShowsProduct ==
    [][\A r \in inFlight : \A resp \in Responses(r.id) :
          (r.req = latest.req /\ ResponseOk(resp) /\ resp.json \in Products(r.id)
             /\ Settle(r, resp)) =>
              /\ View' = "product"
              /\ loading' = FALSE
              /\ error' = NULL
              /\ product' = resp.json]_vars

(***************************************************************************)
(* C6 as stated: on mount and on every identifier change, in the state     *)
(* right after the load starts, loading is true, error is null and product *)
(* is null.                                                                *)
(***************************************************************************)
LoadTrigger == (~mounted /\ mounted') \/ id' # id

C6_LoadStartClearsErrorAndProduct ==
    [][LoadTrigger => (loading' = TRUE /\ error' = NULL /\ product' = NULL)]_vars

(***************************************************************************)
(* C6 as amended: on mount and on every identifier change a load starts,   *)
(* and in the state right after, loading is true and error is null, while  *)
(* product is what it was before (null only if nothing was loaded yet).    *)
(***************************************************************************)
C6_LoadStartClearsErrorKeepsProduct ==
    [][LoadTrigger =>
          /\ issued' = issued + 1
          /\ latest'.status = "pending"
          /\ loading' = TRUE
          /\ error' = NULL
          /\ product' = product]_vars

\* An identifier change has just started a load over a loaded product.
C6_Witness ==
    /\ lastEvent.kind = "idChange"
    /\ latest.status = "pending"
    /\ loading = TRUE
    /\ error = NULL
    /\ product # NULL

(***************************************************************************)
(* C7: whenever the fetch for the current identifier is still pending, the *)
(* loading indicator is displayed (loading is true, neither product nor    *)
(* error is shown), also when fetches for earlier identifiers settle in    *)
(* the meantime.                                                           *)
(***************************************************************************)
C7_LoadingWhileCurrentPending ==
    (mounted /\ latest.status = "pending") => (loading = TRUE /\ View = "loading")

(***************************************************************************)
(* C8: once the view is Ready or Failed, loading, error and product do not *)
(* change again unless the identifier changes, and then the view goes to   *)
(* Loading.                                                                *)
(***************************************************************************)
C8_TerminalUntilIdChange ==
    [][(mounted /\ View \in {"product", "error"}) =>
          IF id' = id
            THEN UNCHANGED <<loading, error, product>>
            ELSE View' = "loading"]_vars

(***************************************************************************)
(* C9: the reviews panel starts hidden, and after k clicks of the reviews  *)
(* button it is visible iff k is odd.                                      *)
(***************************************************************************)
C9_ReviewsVisibleIffOddClicks ==
    reviewsVisible <=> (toggleClicks % 2 = 1)

\* The panel is hidden again after a second click.
C9_Witness ==
    /\ lastEvent.kind = "toggle"
    /\ toggleClicks = 2
    /\ reviewsVisible = FALSE

(***************************************************************************)
(* C10: the mount and every identifier change issue exactly one fetch, for *)
(* the identifier then current; no other step (a settlement, with success  *)
(* or failure, a re-render with the same identifier, a click) issues one.  *)
(***************************************************************************)
C10_OneFetchPerLoad ==
    [][IF LoadTrigger
         THEN /\ issued' = issued + 1
              /\ inFlight' = inFlight \cup {[req |-> issued', id |-> id']}
              /\ latest'.req = issued' /\ latest'.id = id'
         ELSE /\ issued' = issued
              /\ inFlight' \subseteq inFlight]_vars

\* The second load has failed and nothing was fetched again.
C10_Witness ==
    /\ issued = 2
    /\ latest.status = "rejected"
    /\ inFlight = {}
    /\ lastEvent.kind = "settle"

(***************************************************************************)
(* C11: the number of star glyphs rendered equals the rating rounded       *)
(* half-up, for the product's rating, be it a plain number or a structured *)
(* rate, and for each review's rating; a missing rating renders 0 glyphs.  *)
(***************************************************************************)
\* The integer nearest to tenths/10, halves up.
RoundHalfUp(tenths) ==
    CHOOSE k \in 0..(tenths \div 10 + 1) : 10 * k - 5 <= tenths /\ tenths < 10 * k + 5

\* The numeric rate of a rating, in tenths; 0 when it is missing.
RateOf(rating) ==
    IF IsNum(rating) THEN rating.num
    ELSE IF IsObject(rating) THEN rating.rate.num
    ELSE 0

C11_StarsEqualRoundedRating ==
    (View = "product" /\ product # NULL) =>
        /\ rendered.view = "product"
        /\ rendered.stars = RoundHalfUp(RateOf(Get(product, "rating")))
        /\ (reviewsVisible /\ "reviews" \in DOMAIN product) =>
              /\ Len(rendered.reviews) = Len(product.reviews)
              /\ \A k \in 1..Len(product.reviews) :
                    rendered.reviews[k] = RoundHalfUp(RateOf(Get(product.reviews[k], "rating")))

(***************************************************************************)
(* C13: the stock badge of the rendered product reads "In Stock" iff its   *)
(* stock is greater than 0 and "Out of Stock" otherwise, whatever the rest *)
(* of the state is.                                                        *)
(***************************************************************************)
C13_BadgeFromStockAlone ==
    rendered.view = "product" =>
        rendered.badge = IF product.stock.num > 0 THEN "In Stock" ELSE "Out of Stock"

\* A product with no stock is rendered with the reviews shown and the second image.
C13_Witness ==
    /\ rendered.view = "product"
    /\ product.stock = Num(0)
    /\ rendered.badge = "Out of Stock"
    /\ reviewsVisible = TRUE
    /\ currentImageIndex = 1

(***************************************************************************)
(* C12: a click on the thumbnail at position j sets the carousel index to  *)
(* exactly j, whatever the index was, and a thumbnail exists only for      *)
(* positions j in [0, images.length) of a product with more than one       *)
(* image.                                                                  *)
(***************************************************************************)
C12_ThumbnailSetsIndex ==
    [][\A j \in (0 - MaxIndex - 1)..(MaxIndex + 1) :
          ThumbnailClick(j) =>
              /\ currentImageIndex' = j
              /\ ImageCount > 1
              /\ j \in 0..(ImageCount - 1)]_vars

\* A thumbnail click has just moved the index from outside the images to the last one.
C12_Witness ==
    /\ ProductRendered
    /\ lastEvent.kind = "thumbnail"
    /\ lastEvent.from \notin 0..(ImageCount - 1)
    /\ currentImageIndex = ImageCount - 1

(***************************************************************************)
(* C14: in every reachable state, if loading is false and error is null    *)
(* then product is not null, so the product view renders.                  *)
(***************************************************************************)
C14_ProductViewHasProduct ==
    (loading = FALSE /\ error = NULL) => (product # NULL /\ rendered.view = "product")

\* The product of a superseded fetch is rendered while the current fetch is pending.
C14_Witness ==
    /\ loading = FALSE
    /\ error = NULL
    /\ product # NULL
    /\ product.id # id
    /\ inFlight # {}

(***************************************************************************)
(* C15: the mount, an identifier change, a re-render and a settlement      *)
(* leave currentImageIndex and reviewsVisible unchanged; a next, previous, *)
(* thumbnail or reviews click leaves product, loading and error unchanged. *)
(***************************************************************************)
C15_Frame ==
    [][/\ lastEvent'.kind \in {"mount", "idChange", "rerender", "settle"} =>
              UNCHANGED <<currentImageIndex, reviewsVisible>>
       /\ lastEvent'.kind \in {"next", "previous", "thumbnail", "toggle"} =>
              UNCHANGED <<product, loading, error>>]_vars

\* The second product has just been loaded under the index and the reviews
\* visibility chosen for the first.
C15_Witness ==
    /\ lastEvent.kind = "settle"
    /\ issued = 2
    /\ latest.status = "fulfilled"
    /\ ProductRendered
    /\ currentImageIndex = 1
    /\ reviewsVisible = TRUE

(***************************************************************************)
(* C16: if every issued fetch eventually settles and the identifier        *)
(* changes finitely often, the view eventually leaves Loading for good and *)
(* shows the product view or the error view.                               *)
(***************************************************************************)
C16_EventuallyLoaded == <>[](loading = FALSE /\ View \in {"product", "error"})

\* Every load the bound allows was started, and all have settled.
C16_Witness ==
    /\ issued = MaxLoads
    /\ inFlight = {}
    /\ loading = FALSE

(***************************************************************************)
(* C17: when no two fetches overlap, then after each fetch has settled the *)
(* view shows that identifier's outcome: its product with no error on      *)
(* success, the fixed error message on failure.                            *)
(***************************************************************************)
C17_SequentialOutcome ==
    AllSettled =>
        /\ latest.id = id
        /\ latest.status = "fulfilled" =>
              (View = "product" /\ product = latest.value /\ error = NULL)
        /\ latest.status = "rejected" =>
              (View = "error" /\ error = ErrorMessage)

\* A second identifier's fetch has just succeeded and its product is shown.
C17_Witness ==
    /\ lastEvent.kind = "settle"
    /\ issued = 2
    /\ latest.status = "fulfilled"
    /\ View = "product"
    /\ product = latest.value

====
